---- MODULE Spec2Model ----
(***************************************************************************)
(* The tournament-registration backend of src/main.py as a state machine. *)
(*                                                                         *)
(* State: the remote spreadsheet (a sequence of rows of ten cells), the    *)
(* local fallback file (a sequence of lines), the session dict of one      *)
(* browser session, and the wall clock.  One action per route handler;     *)
(* each action models the whole handler, the calls it makes into           *)
(* get_google_sheet and save_to_local_file included.                       *)
(*                                                                         *)
(* Python strings are sequences of tokens (a literal of the source is one  *)
(* token, a formatted number is one token per character), so that          *)
(* concatenation, join, strip, int() and str() are computed, not assumed.  *)
(* JSON values are records [t |-> tag, v |-> payload].                     *)
(***************************************************************************)
EXTENDS Integers, Sequences, FiniteSets, Bags, TLC

\* Bounds of the model.
MaxRegs == 2
MaxClock == 1
MaxCalls == 2

\* Program constants.
MinAge == 11
MaxAge == 14
Player1PaymentCol == 5
Player2PaymentCol == 9
HeaderRows == 2

-----------------------------------------------------------------------------
(* Python / JSON values *)

DigitCh == <<"0", "1", "2", "3", "4", "5", "6", "7", "8", "9">>

IsDigit(c) == \E i \in 1..10 : DigitCh[i] = c

DigitVal(c) == (CHOOSE i \in 1..10 : DigitCh[i] = c) - 1

Null == [t |-> "null", v |-> <<>>]
Str(s) == [t |-> "str", v |-> s]
Num(s) == [t |-> "num", v |-> s]
Bool(b) == [t |-> "bool", v |-> IF b THEN <<"true">> ELSE <<"false">>]
Dict(d) == [t |-> "dict", v |-> d]
List(l) == [t |-> "list", v |-> l]

EmptyDict == [k \in {} |-> Null]

\* a == b of Python on JSON values: values of different types are unequal
PyEq(a, b) == a.t = b.t /\ a.v = b.v

\* dict.get(key, default); a non-dict has no get (AttributeError, see the callers)
Get(d, key, default) == IF key \in DOMAIN d.v THEN d.v[key] ELSE default

RECURSIVE ParseDigits(_)
ParseDigits(s) ==
    IF s = <<>> THEN 0
    ELSE 10 * ParseDigits(SubSeq(s, 1, Len(s) - 1)) + DigitVal(s[Len(s)])

AllDigits(s) == s # <<>> /\ \A i \in 1..Len(s) : IsDigit(s[i])

\* the digits of a numeric literal before its decimal point
RECURSIVE IntegerPart(_)
IntegerPart(s) ==
    IF s = <<>> \/ ~IsDigit(Head(s)) THEN <<>>
    ELSE <<Head(s)>> \o IntegerPart(Tail(s))

\* digits, or digits "." digits; int is the integer part of s
IsDecimal(s, int) ==
    /\ int # <<>>
    /\ \/ Len(int) = Len(s)
       \/ /\ s[Len(int) + 1] = "."
          /\ AllDigits(SubSeq(s, Len(int) + 2, Len(s)))

IsFiniteLiteral(s) == IsDecimal(s, IntegerPart(s))

Ok(n) == [ok |-> TRUE, n |-> n, exc |-> ""]
Raise(exc) == [ok |-> FALSE, n |-> 0, exc |-> exc]

\* int(float): truncation toward zero; OverflowError for an infinity,
\* ValueError for a NaN
IntOfNumber(s, int) ==
    IF IsDecimal(s, int) THEN Ok(ParseDigits(int))
    ELSE IF s = <<"Infinity">> THEN Raise("OverflowError")
    ELSE Raise("ValueError")

\* int(x): [ok, n] on success, [ok = FALSE, exc] when it raises
PyInt(x) ==
    CASE x.t = "num" -> IntOfNumber(x.v, IntegerPart(x.v))
      [] x.t = "str" -> IF AllDigits(x.v) THEN Ok(ParseDigits(x.v)) ELSE Raise("ValueError")
      [] x.t = "bool" -> Ok(IF x.v = <<"true">> THEN 1 ELSE 0)
      [] OTHER -> Raise("TypeError")

\* str(n) for n >= 0
RECURSIVE IntToStr(_)
IntToStr(n) ==
    IF n < 10 THEN <<DigitCh[n + 1]>>
    ELSE IntToStr(n \div 10) \o <<DigitCh[(n % 10) + 1]>>

\* bool(x)
Truthy(x) ==
    CASE x.t = "null" -> FALSE
      [] x.t = "str" -> x.v # <<>>
      [] x.t = "num" -> ~(IsFiniteLiteral(x.v) /\ \A i \in 1..Len(x.v) : x.v[i] \in {"0", "."})
      [] x.t = "bool" -> x.v = <<"true">>
      [] x.t = "dict" -> DOMAIN x.v # {}
      [] OTHER -> x.v # <<>>

\* format(x) inside an f-string, for the values the forms carry
Format(x) == IF x.t = "null" THEN <<"None">> ELSE x.v

RECURSIVE LStrip(_)
LStrip(s) == IF s # <<>> /\ Head(s) = " " THEN LStrip(Tail(s)) ELSE s

RECURSIVE RStrip(_)
RStrip(s) ==
    IF s # <<>> /\ s[Len(s)] = " " THEN RStrip(SubSeq(s, 1, Len(s) - 1)) ELSE s

Strip(s) == RStrip(LStrip(s))

RECURSIVE Join(_, _)
Join(sep, items) ==
    IF items = <<>> THEN <<>>
    ELSE IF Len(items) = 1 THEN items[1]
    ELSE items[1] \o <<sep>> \o Join(sep, Tail(items))

-----------------------------------------------------------------------------
(* The wall clock and strftime *)

\* the instant of the first request; `now` counts seconds from it
Epoch == [year |-> 2026, month |-> 11, day |-> 3, second |-> 86399]

DateTimeNow(t) ==
    LET s == Epoch.second + t
        d == s % 86400
    IN  [year |-> Epoch.year, month |-> Epoch.month, day |-> Epoch.day + (s \div 86400),
         hour |-> d \div 3600, minute |-> (d % 3600) \div 60, second |-> d % 60]

\* %Y, %m, %d, %H, %M, %S: zero-padded decimal
RECURSIVE Pad(_, _)
Pad(s, width) == IF Len(s) >= width THEN s ELSE Pad(<<"0">> \o s, width)

Field(n, width) == Pad(IntToStr(n), width)

\* strftime('%Y%m%d_%H%M%S')
StrfTeamStamp(dt) ==
    Field(dt.year, 4) \o Field(dt.month, 2) \o Field(dt.day, 2) \o <<"_">>
        \o Field(dt.hour, 2) \o Field(dt.minute, 2) \o Field(dt.second, 2)

\* strftime('%Y-%m-%d %H:%M:%S')
StrfTimestamp(dt) ==
    Field(dt.year, 4) \o <<"-">> \o Field(dt.month, 2) \o <<"-">> \o Field(dt.day, 2)
        \o <<" ">> \o Field(dt.hour, 2) \o <<":">> \o Field(dt.minute, 2)
        \o <<":">> \o Field(dt.second, 2)

\* f"TEAM_{datetime.now().strftime('%Y%m%d_%H%M%S')}"
TeamId(t) == <<"TEAM_">> \o StrfTeamStamp(DateTimeNow(t))

-----------------------------------------------------------------------------
(* Spreadsheet Client Adapter and Local Fallback Writer *)

Headers ==
    << <<"Timestamp">>, <<"Player 1 Name">>, <<"Player 1 Age">>, <<"Player 1 Form">>,
       <<"Player 1 Payment Agreement">>, <<"Player 2 Name">>, <<"Player 2 Age">>,
       <<"Player 2 Form">>, <<"Player 2 Payment Agreement">>, <<"Team ID">> >>

\* gspread numericises the cells it returns
Numericise(cell) == IF AllDigits(cell) THEN Num(cell) ELSE Str(cell)

\* worksheet.get_all_records(): row 1 holds the keys, every later row is a record
GetAllRecords(sh) ==
    IF Len(sh) <= 1 THEN <<>>
    ELSE LET keys == sh[1]
         IN  [i \in 1..(Len(sh) - 1) |->
                Dict([k \in {keys[j] : j \in 1..Len(keys)} |->
                        Numericise(sh[i + 1][CHOOSE j \in 1..Len(keys) : keys[j] = k])])]

\* a row put right under the first row instead of after the last one
InsertRow(sh, row) ==
    IF sh = <<>> THEN <<row>> ELSE <<Head(sh), row>> \o Tail(sh)

\* worksheet.append_row(row)
AppendRow(sh, row) == Append(sh, row)

\* worksheet.update_cell(row, col, value), 1-indexed
UpdateCell(sh, row, col, value) ==
    IF row \in 1..Len(sh) /\ col \in 1..Len(sh[row])
    THEN [sh EXCEPT ![row][col] = value]
    ELSE sh

\* What the world does during one request.  fails names the remote call that
\* raises ("none": every call succeeds; a handler stops at the first call that
\* raises, so one name says it all), file says whether the local write succeeds,
\* json_none whether this Flask returns None for a body that is not JSON.
RemoteCalls == {"connect", "header", "read", "append", "update"}

Envs == [fails : RemoteCalls \cup {"none"}, file : BOOLEAN, json_none : BOOLEAN]

NoFault == [fails |-> "none", file |-> TRUE, json_none |-> FALSE]

\* what get_json may do with the request
JsonEnvs(request) ==
    {e \in Envs : e.fails = "none" /\ e.file /\ (e.json_none => ~request.is_json)}

\* what the calls `calls` and the local write may do
CallEnvs(calls) ==
    {e \in Envs : /\ e.fails \in calls \cup {"none"}
                  /\ ~e.json_none
                  /\ ~e.file => e.fails \in calls \cap {"connect", "header"}}

\* get_google_sheet(): [handle, sheet, faults]; handle = FALSE is the None result
GetGoogleSheet(sh, env) ==
    IF env.fails = "connect"
    THEN [handle |-> FALSE, sheet |-> sh, faults |-> {"connect"}]
    ELSE IF GetAllRecords(sh) = <<>>
    THEN IF env.fails = "header"
         THEN [handle |-> FALSE, sheet |-> sh, faults |-> {"header"}]
         ELSE [handle |-> TRUE, sheet |-> AppendRow(sh, Headers), faults |-> {}]
    ELSE [handle |-> TRUE, sheet |-> sh, faults |-> {}]

\* save_to_local_file(row_data): a failing write is printed and swallowed
SaveToLocalFile(file, row_data, env) ==
    IF env.file
    THEN [file |-> Append(file, Join("|", row_data) \o <<"\n">>), faults |-> {}]
    ELSE [file |-> file, faults |-> {"file"}]

-----------------------------------------------------------------------------
(* Requests and responses *)

\* A request: is_json is the Content-Type test of Flask, form the parsed form
\* fields (empty unless the body is form-encoded), body the parsed JSON body
\* (Null when there is none).
Request(route, method, is_json, form, body) ==
    [route |-> route, method |-> method, is_json |-> is_json, form |-> form, body |-> body]

Response ==
    [status |-> 200, kind |-> "json", page |-> "", location |-> "", error |-> "",
     exc |-> "", success |-> FALSE, team_id |-> <<>>, saved_to_sheets |-> FALSE,
     player |-> <<>>, new_status |-> <<>>, total_count |-> 0, full_payment_count |-> 0,
     partial_payment_count |-> 0, no_payment_count |-> 0]

\* jsonify({"error": error}), status
JsonError(status, error) == [Response EXCEPT !.status = status, !.error = error]

\* redirect(url_for(endpoint))
Redirect(endpoint) ==
    [Response EXCEPT !.status = 302, !.kind = "redirect", !.location = endpoint]

\* an exception no handler catches: Flask answers 500 Internal Server Error
Unhandled(exc) ==
    [Response EXCEPT !.status = 500, !.kind = "html", !.page = "Internal Server Error",
                     !.exc = exc]

\* request.get_json(): [raised, value].  With a Content-Type that is not JSON it
\* raises (415) or returns None, depending on the Flask release.
GetJson(request, env) ==
    IF request.is_json THEN [raised |-> FALSE, value |-> request.body]
    ELSE IF env.json_none THEN [raised |-> FALSE, value |-> Null]
    ELSE [raised |-> TRUE, value |-> Null]

-----------------------------------------------------------------------------
(* Registration Handler: /submit-registration *)

AgeInRange(age) == MinAge <= age /\ age <= MaxAge

\* a row that records the payment agreement the client declares
ClientPayment(player) ==
    IF PyEq(Get(player, "paymentAgreement", Bool(FALSE)), Bool(TRUE)) THEN <<"Yes">>
    ELSE <<"No">>

\* 'No': both payment agreements start as "No", whatever the client sent
InitialPayment(player) == <<"No">>

\* f"{player.get('formNumber', '')} {player.get('formName', '')}".strip()
PlayerForm(player) ==
    Strip(Format(Get(player, "formNumber", Str(<<>>))) \o <<" ">>
            \o Format(Get(player, "formName", Str(<<>>))))

RowData(player1, player1_age, player2, player2_age, t) ==
    << StrfTimestamp(DateTimeNow(t)),
       Format(Get(player1, "fullName", Str(<<>>))),
       IntToStr(player1_age),
       PlayerForm(player1),
       InitialPayment(player1),
       Format(Get(player2, "fullName", Str(<<>>))),
       IntToStr(player2_age),
       PlayerForm(player2),
       InitialPayment(player2),
       TeamId(t) >>

\* the outcome of a handler: the response and the storage it leaves
Outcome(response, sh, file, opened, faults) ==
    [resp |-> response, sheet |-> sh, localfile |-> file, opened |-> opened,
     faults |-> faults]

\* What lines 86-131 come to: a response that ends the request, or the row to
\* store.
Answer(response) == [answered |-> TRUE, resp |-> response, row |-> <<>>]
Row(row_data) == [answered |-> FALSE, resp |-> Response, row |-> row_data]

\* except Exception as e: 500 "Failed to process registration"
SubmitFailed(exc) == [JsonError(500, "Failed to process registration") EXCEPT !.exc = exc]

\* lines 138-152: no sheet, the row goes to the local file
SubmitFallback(got, saved, row_data) ==
    Outcome([Response EXCEPT !.success = TRUE, !.team_id = row_data[10],
                             !.saved_to_sheets = FALSE],
            got.sheet, saved.file, TRUE, got.faults \cup saved.faults)

\* lines 135-152: got is what get_google_sheet() returned
SubmitStore(got, row_data, file, env) ==
    IF got.handle
    THEN IF env.fails # "append"
         THEN Outcome([Response EXCEPT !.success = TRUE, !.team_id = row_data[10],
                                       !.saved_to_sheets = TRUE],
                      AppendRow(got.sheet, row_data), file, TRUE, {})
         ELSE Outcome(SubmitFailed("APIError"), got.sheet, file, TRUE, {"append"})
    ELSE SubmitFallback(got, SaveToLocalFile(file, row_data, env), row_data)

\* lines 133-152: persist the row and answer
SubmitPersist(row_data, sh, file, env) ==
    SubmitStore(GetGoogleSheet(sh, env), row_data, file, env)

\* lines 104-131: a1, a2 are what int() made of the two ages, raised the
\* exception of the first one that raised
SubmitAges(a1, a2, raised, player1, player2, t) ==
    IF raised \in {"ValueError", "TypeError"}
    THEN Answer(JsonError(400, "Invalid age provided"))
    ELSE IF raised # ""
    THEN Answer(SubmitFailed(raised))
    ELSE IF ~AgeInRange(a1.n)
    THEN Answer(JsonError(400, "Player 1 age must be between 11-14"))
    ELSE IF ~AgeInRange(a2.n)
    THEN Answer(JsonError(400, "Player 2 age must be between 11-14"))
    ELSE Row(RowData(player1, a1.n, player2, a2.n, t))

FirstRaised(a1, a2) == IF ~a1.ok THEN a1.exc ELSE IF ~a2.ok THEN a2.exc ELSE ""

\* int(player.get('age', 0))
PlayerAge(player) == PyInt(Get(player, "age", Num(<<"0">>)))

SubmitBothAges(a1, a2, player1, player2, t) ==
    SubmitAges(a1, a2, FirstRaised(a1, a2), player1, player2, t)

\* lines 99-131: the two players are known to be present
SubmitValidate(player1, player2, t) ==
    IF player1.t # "dict" \/ player2.t # "dict"
    THEN Answer(SubmitFailed("AttributeError"))
    ELSE SubmitBothAges(PlayerAge(player1), PlayerAge(player2), player1, player2, t)

\* `field not in data` for a parsed JSON value
Contains(data, field) ==
    CASE data.t = "dict" -> field \in DOMAIN data.v
      [] OTHER -> FALSE

\* lines 88-131: got is what request.get_json() did
SubmitData(got, t) ==
    IF got.raised
    THEN Answer(SubmitFailed("UnsupportedMediaType"))
    ELSE IF ~Truthy(got.value)
    THEN Answer(JsonError(400, "No data received"))
    ELSE IF got.value.t \notin {"dict", "list", "str"}
    THEN Answer(SubmitFailed("TypeError"))
    ELSE IF ~Contains(got.value, "player1")
    THEN Answer(JsonError(400, "Missing player1 data"))
    ELSE IF ~Contains(got.value, "player2")
    THEN Answer(JsonError(400, "Missing player2 data"))
    ELSE SubmitValidate(got.value.v["player1"], got.value.v["player2"], t)

\* lines 86-131: validation, before the spreadsheet is touched
SubmitChecked(request, t, env) == SubmitData(GetJson(request, env), t)

\* lines 133-159 after lines 86-131
SubmitAfter(checked, sh, file, env) ==
    IF checked.answered THEN Outcome(checked.resp, sh, file, FALSE, {})
    ELSE SubmitPersist(checked.row, sh, file, env)

submit_registration(request, t, sh, file, env) ==
    SubmitAfter(SubmitChecked(request, t, env), sh, file, env)

-----------------------------------------------------------------------------
(* Session Auth Gate *)

\* os.getenv('TEACHER_PASSWORD', 'admin123')
TEACHER_PASSWORD == Str(<<"admin123">>)

NoSession == [k \in {} |-> TRUE]

\* the gate with its test the wrong way round
InvertedTeacherAuth(sess) ==
    ~("teacher_authenticated" \in DOMAIN sess /\ sess["teacher_authenticated"])

\* require_teacher_auth: TRUE when the decorated function is called
RequireTeacherAuth(sess) ==
    "teacher_authenticated" \in DOMAIN sess /\ sess["teacher_authenticated"]

\* session['teacher_authenticated'] = True
SetAuthenticated(sess) ==
    [k \in DOMAIN sess \cup {"teacher_authenticated"} |->
        IF k = "teacher_authenticated" THEN TRUE ELSE sess[k]]

\* a logout that leaves the session as it is
KeepAuthenticated(sess) == sess

\* session.pop('teacher_authenticated', None)
PopAuthenticated(sess) == [k \in DOMAIN sess \ {"teacher_authenticated"} |-> sess[k]]

\* line 456: request.form.get('password') or request.json.get('password')
\*           if request.is_json else None
\* (the conditional binds last: without a JSON body the result is None)
LoginPassword(request) ==
    IF request.is_json
    THEN LET form_password == Get(request.form, "password", Null)
         IN  IF Truthy(form_password) THEN [raised |-> FALSE, value |-> form_password]
             ELSE IF request.body.t # "dict" THEN [raised |-> TRUE, value |-> Null]
             ELSE [raised |-> FALSE, value |-> Get(request.body, "password", Null)]
    ELSE [raised |-> FALSE, value |-> Null]

\* line 466: login_template is assigned at line 468, after this use of it
RenderLoginError(error) == Unhandled("UnboundLocalError")

\* teacher_login: [resp, session]
teacher_login(request, sess) ==
    IF request.method = "POST"
    THEN LET password == LoginPassword(request)
         IN  IF password.raised
             THEN [resp |-> Unhandled("AttributeError"), session |-> sess]
             ELSE IF PyEq(password.value, TEACHER_PASSWORD)
             THEN [resp |-> Redirect("teacher_dashboard"), session |-> SetAuthenticated(sess)]
             ELSE IF request.is_json
             THEN [resp |-> JsonError(401, "Invalid password"), session |-> sess]
             ELSE [resp |-> RenderLoginError("Invalid password"), session |-> sess]
    ELSE [resp |-> [Response EXCEPT !.kind = "html", !.page = "login"], session |-> sess]

\* teacher_logout: [resp, session]
teacher_logout(sess) == [resp |-> Redirect("home"), session |-> PopAuthenticated(sess)]

-----------------------------------------------------------------------------
(* Dashboard Renderer: /teacher, and /get-registrations *)

PaymentIs(record, key, value) == PyEq(Get(record, key, Null), Str(value))

IsFull(r) ==
    PaymentIs(r, <<"Player 1 Payment Agreement">>, <<"Yes">>)
        /\ PaymentIs(r, <<"Player 2 Payment Agreement">>, <<"Yes">>)

IsPartial(r) ==
    PaymentIs(r, <<"Player 1 Payment Agreement">>, <<"Yes">>)
        # PaymentIs(r, <<"Player 2 Payment Agreement">>, <<"Yes">>)

IsNone(r) ==
    PaymentIs(r, <<"Player 1 Payment Agreement">>, <<"No">>)
        /\ PaymentIs(r, <<"Player 2 Payment Agreement">>, <<"No">>)

\* sum(1 for r in records if ...)
CountFull(records) == Cardinality({i \in 1..Len(records) : IsFull(records[i])})
CountPartial(records) == Cardinality({i \in 1..Len(records) : IsPartial(records[i])})
CountNone(records) == Cardinality({i \in 1..Len(records) : IsNone(records[i])})

TextError(status, text, exc) ==
    [Response EXCEPT !.status = status, !.kind = "text", !.error = text, !.exc = exc]

\* lines 436-447: the statistics and the page
RenderDashboard(records) ==
    [Response EXCEPT !.kind = "html", !.page = "dashboard",
                     !.total_count = Len(records),
                     !.full_payment_count = CountFull(records),
                     !.partial_payment_count = CountPartial(records),
                     !.no_payment_count = CountNone(records)]

\* lines 167-450: got is what get_google_sheet() returned
DashboardWith(got, file, env) ==
    IF ~got.handle
    THEN Outcome(TextError(500, "Error: Cannot connect to Google Sheets", ""),
                 got.sheet, file, TRUE, got.faults)
    ELSE IF env.fails = "read"
    THEN Outcome(TextError(500, "Error loading dashboard", "APIError"),
                 got.sheet, file, TRUE, {"read"})
    ELSE Outcome(RenderDashboard(GetAllRecords(got.sheet)), got.sheet, file, TRUE, {})

teacher_dashboard(sh, file, env) == DashboardWith(GetGoogleSheet(sh, env), file, env)

\* lines 651-662: got is what get_google_sheet() returned
RegistrationsWith(got, file, env) ==
    IF ~got.handle
    THEN Outcome(JsonError(500, "Cannot connect to Google Sheets"),
                 got.sheet, file, TRUE, got.faults)
    ELSE IF env.fails = "read"
    THEN Outcome([JsonError(500, "APIError") EXCEPT !.exc = "APIError"],
                 got.sheet, file, TRUE, {"read"})
    ELSE Outcome([Response EXCEPT !.success = TRUE,
                                  !.total_count = Len(GetAllRecords(got.sheet))],
                 got.sheet, file, TRUE, {})

get_registrations(sh, file, env) == RegistrationsWith(GetGoogleSheet(sh, env), file, env)

-----------------------------------------------------------------------------
(* Payment Updater: /teacher/update-payment *)

\* lines 605-610: the spreadsheet row of the first record whose Team ID equals
\* team_id, 0 for None
Matches(records, team_id) ==
    {i \in 1..Len(records) : PyEq(Get(records[i], <<"Team ID">>, Null), team_id)}

\* a scan without its `break`: the last match wins
LastRow(matches) ==
    IF matches = {} THEN 0
    ELSE (CHOOSE i \in matches : \A j \in matches : i >= j) - 1 + HeaderRows

\* the first match of the scan (`break`), as a spreadsheet row
FirstRow(matches) ==
    IF matches = {} THEN 0
    ELSE (CHOOSE i \in matches : \A j \in matches : i <= j) - 1 + HeaderRows

RowIndex(records, team_id) == FirstRow(Matches(records, team_id))

\* the two columns counted from zero
ZeroBasedColIndex(player) ==
    IF PyEq(player, Str(<<"player1">>)) THEN Player1PaymentCol - 1
    ELSE Player2PaymentCol - 1

\* lines 616-619
ColIndex(player) ==
    IF PyEq(player, Str(<<"player1">>)) THEN Player1PaymentCol ELSE Player2PaymentCol

\* x in [a, b]
InList(x, list) == \E i \in 1..Len(list) : PyEq(x, list[i])

\* except Exception as e: jsonify({"error": str(e)}), 500
UpdateFailed(exc) == [JsonError(500, exc) EXCEPT !.exc = exc]

\* What lines 584-597 come to: a response that ends the request, or the three
\* valid fields.
Fields(team_id, player, payment_status) ==
    [answered |-> FALSE, resp |-> Response, team_id |-> team_id, player |-> player,
     payment_status |-> payment_status]

Refuse(response) ==
    [answered |-> TRUE, resp |-> response, team_id |-> Null, player |-> Null,
     payment_status |-> Null]

\* lines 612-630: row_index is what the scan found
UpdateAt(row_index, team_id, player, payment_status, sh, file, env) ==
    IF row_index = 0
    THEN Outcome(JsonError(404, "Team ID not found"), sh, file, TRUE, {})
    ELSE IF env.fails = "update"
    THEN Outcome(UpdateFailed("APIError"), sh, file, TRUE, {"update"})
    ELSE Outcome([Response EXCEPT !.success = TRUE, !.team_id = team_id.v,
                                  !.player = player.v, !.new_status = payment_status.v],
                 UpdateCell(sh, row_index, ColIndex(player), payment_status.v),
                 file, TRUE, {})

\* lines 600-630: got is what get_google_sheet() returned
UpdateWith(got, team_id, player, payment_status, file, env) ==
    IF ~got.handle
    THEN Outcome(JsonError(500, "Cannot connect to Google Sheets"),
                 got.sheet, file, TRUE, got.faults)
    ELSE IF env.fails = "read"
    THEN Outcome(UpdateFailed("APIError"), got.sheet, file, TRUE, {"read"})
    ELSE UpdateAt(RowIndex(GetAllRecords(got.sheet), team_id),
                  team_id, player, payment_status, got.sheet, file, env)

\* lines 590-597: the three fields as read from the body
UpdateFields(team_id, player, payment_status) ==
    IF ~(Truthy(team_id) /\ Truthy(player) /\ Truthy(payment_status))
    THEN Refuse(JsonError(400, "Missing required fields"))
    ELSE IF ~InList(player, <<Str(<<"player1">>), Str(<<"player2">>)>>)
    THEN Refuse(JsonError(400, "Invalid player specified"))
    ELSE IF ~InList(payment_status, <<Str(<<"Yes">>), Str(<<"No">>)>>)
    THEN Refuse(JsonError(400, "Invalid payment status"))
    ELSE Fields(team_id, player, payment_status)

\* lines 585-597: got is what request.get_json() did
UpdateData(got) ==
    IF got.raised
    THEN Refuse(UpdateFailed("UnsupportedMediaType"))
    ELSE IF got.value.t # "dict"
    THEN Refuse(UpdateFailed("AttributeError"))
    ELSE UpdateFields(Get(got.value, "team_id", Null), Get(got.value, "player", Null),
                      Get(got.value, "payment_status", Null))

\* lines 584-597: validation, before the spreadsheet is touched
UpdateChecked(request, env) == UpdateData(GetJson(request, env))

\* lines 599-634 after lines 584-597
UpdateAfter(checked, sh, file, env) ==
    IF checked.answered THEN Outcome(checked.resp, sh, file, FALSE, {})
    ELSE UpdateWith(GetGoogleSheet(sh, env), checked.team_id, checked.player,
                    checked.payment_status, file, env)

update_payment(request, sh, file, env) ==
    UpdateAfter(UpdateChecked(request, env), sh, file, env)

\* a gated route reached without the session flag
Gated(sh, file) == Outcome(Redirect("teacher_login"), sh, file, FALSE, {})

-----------------------------------------------------------------------------
(* The requests a client sends *)

NoForm == Dict(EmptyDict)

Field1(k, x) == [f \in {k} |-> x]

PlayerOf(name, age, formNumber, formName, payment) ==
    [k \in {"fullName", "age", "formNumber", "formName", "paymentAgreement"} |->
        CASE k = "fullName" -> Str(<<name>>)
          [] k = "age" -> age
          [] k = "formNumber" -> Str(<<formNumber>>)
          [] k = "formName" -> Str(<<formName>>)
          [] OTHER -> payment]

\* a player object without the key `key`
Without(player, key) == [k \in DOMAIN player \ {key} |-> player[k]]

Player1Of(age) == Dict(PlayerOf("A", age, "1", "F", Bool(TRUE)))
Player2Of(age) == Dict(Without(PlayerOf("B", age, "2", "G", Bool(TRUE)), "formNumber"))

\* the values a client puts in `age`
AgeInputs ==
    << Num(<<"1", "0">>), Num(<<"1", "1">>), Num(<<"1", "4">>), Num(<<"1", "5">>),
       Num(<<"1", "4", ".", "5">>), Str(<<"1", "4">>), Str(<<"a", "b", "c">>), Null,
       Num(<<"Infinity">>) >>

Players(p1, p2) ==
    Dict([k \in {"player1", "player2"} |-> IF k = "player1" THEN p1 ELSE p2])

ValidAge == Num(<<"1", "3">>)

SubmitBodies ==
    [i \in 1..Len(AgeInputs) |-> Players(Player1Of(AgeInputs[i]), Player2Of(ValidAge))]
    \o << Players(Player1Of(ValidAge), Player2Of(Num(<<"1", "5">>))),
          Players(Player1Of(Num(<<"1", "5">>)), Player2Of(Str(<<"a", "b", "c">>))),
          Players(Dict(Without(Player1Of(ValidAge).v, "age")), Player2Of(ValidAge)),
          Players(Dict(PlayerOf("A", Num(<<"1", "1">>), "1", "F", Bool(FALSE))),
                  Dict(Without(PlayerOf("B", ValidAge, "2", "G", Bool(FALSE)),
                               "formNumber"))),
          Players(Str(<<"A">>), Player2Of(ValidAge)),
          Dict(Field1("player1", Player1Of(ValidAge))),
          Dict(EmptyDict) >>

SubmitRequests ==
    [i \in 1..Len(SubmitBodies) |->
        Request("/submit-registration", "POST", TRUE, NoForm, SubmitBodies[i])]
    \o << Request("/submit-registration", "POST", FALSE, NoForm, Null) >>

ValidSubmit ==
    Request("/submit-registration", "POST", TRUE, NoForm,
            Players(Player1Of(Num(<<"1", "1">>)), Player2Of(ValidAge)))

WrongPassword == Str(<<"letmein">>)

LoginRequests ==
    << Request("/teacher/login", "GET", FALSE, NoForm, Null),
       Request("/teacher/login", "POST", FALSE, Dict(Field1("password", TEACHER_PASSWORD)), Null),
       Request("/teacher/login", "POST", FALSE, Dict(Field1("password", WrongPassword)), Null),
       Request("/teacher/login", "POST", FALSE, NoForm, Null),
       Request("/teacher/login", "POST", TRUE, NoForm, Dict(Field1("password", TEACHER_PASSWORD))),
       Request("/teacher/login", "POST", TRUE, NoForm, Dict(Field1("password", WrongPassword))),
       Request("/teacher/login", "POST", TRUE, NoForm, Dict(EmptyDict)),
       Request("/teacher/login", "POST", TRUE, NoForm, Null) >>

DashboardRequests ==
    << Request("/teacher", "GET", FALSE, NoForm, Null),
       Request("/teacher", "GET", TRUE, NoForm, Dict(EmptyDict)) >>

UpdateBody(team_id, player, payment_status) ==
    [k \in {"team_id", "player", "payment_status"} |->
        CASE k = "team_id" -> team_id
          [] k = "player" -> player
          [] OTHER -> payment_status]

UnknownTeam == Str(<<"TEAM_", "X">>)

\* the Team IDs the dashboard can show within the clock's range, and one it cannot
TeamIdInputs == [i \in 1..(MaxClock + 1) |-> Str(TeamId(i - 1))] \o <<UnknownTeam>>

GoodUpdate == UpdateBody(Str(TeamId(0)), Str(<<"player1">>), Str(<<"Yes">>))

\* the four (player, payment_status) combinations for the first team, and one
\* update for every other Team ID
ValidUpdateBodies ==
    << Dict(GoodUpdate),
       Dict([GoodUpdate EXCEPT !["payment_status"] = Str(<<"No">>)]),
       Dict([GoodUpdate EXCEPT !["player"] = Str(<<"player2">>)]),
       Dict([GoodUpdate EXCEPT !["player"] = Str(<<"player2">>),
                               !["payment_status"] = Str(<<"No">>)]) >>
    \o [i \in 1..(Len(TeamIdInputs) - 1) |->
            Dict([GoodUpdate EXCEPT !["team_id"] = TeamIdInputs[i + 1],
                                    !["player"] = Str(<<"player2">>)])]

InvalidUpdateBodies ==
    << Dict(Without(GoodUpdate, "team_id")),
       Dict(Without(GoodUpdate, "player")),
       Dict(Without(GoodUpdate, "payment_status")),
       Dict([GoodUpdate EXCEPT !["team_id"] = Str(<<>>)]),
       Dict([GoodUpdate EXCEPT !["player"] = Str(<<"player3">>)]),
       Dict([GoodUpdate EXCEPT !["payment_status"] = Str(<<"yes">>)]),
       List(<<>>),
       Null >>

UpdateRequests ==
    [i \in 1..(Len(ValidUpdateBodies) + Len(InvalidUpdateBodies)) |->
        Request("/teacher/update-payment", "POST", TRUE, NoForm,
                (ValidUpdateBodies \o InvalidUpdateBodies)[i])]
    \o << Request("/teacher/update-payment", "POST", FALSE, NoForm, Null) >>

-----------------------------------------------------------------------------
(* The state machine *)

VARIABLES
    session,    \* the session dict of the browser session
    sheet,      \* the rows of the spreadsheet's first worksheet
    localfile,  \* the lines of tournament_registrations.txt
    now,        \* seconds since Epoch
    req,        \* the last request (NoRequest after a tick of the clock)
    resp,       \* the response to it
    opened,     \* whether its handler called get_google_sheet
    faults,     \* the calls that raised while it was handled
    bodyRan,    \* whether it ran the body of a gated handler
    loginOk,    \* history: a login POST carried the secret, and no logout since
    inflight,   \* the bag of requests being handled concurrently
    lastWrite   \* history: the last update_cell that was applied

vars ==
    <<session, sheet, localfile, now, req, resp, opened, faults, bodyRan, loginOk,
      inflight, lastWrite>>

NoRequest == Request("", "", FALSE, NoForm, Null)

\* a request in flight, before it is given its operation
Idle ==
    [op |-> "", pc |-> "idle", team_id |-> Null, player |-> Null, payment_status |-> Null,
     row_data |-> <<>>, row_index |-> 0]

NoWrite == [row |-> 0, col |-> 0, value |-> <<>>, team_id |-> <<>>]

Init ==
    /\ session = NoSession
    /\ sheet = <<>>
    /\ localfile = <<>>
    /\ now = 0
    /\ req = NoRequest
    /\ resp = Response
    /\ opened = FALSE
    /\ faults = {}
    /\ bodyRan = FALSE
    /\ loginOk = FALSE
    /\ inflight = EmptyBag
    /\ lastWrite = NoWrite

\* the rows that are registrations
Registrations(sh) == {i \in 1..Len(sh) : sh[i] # Headers}

Stored(sh, file) == Cardinality(Registrations(sh)) + Len(file)

\* the handler's outcome becomes the state, within the bound on what is stored
Apply(request, outcome, ran) ==
    \E out \in {outcome} :
        /\ Stored(out.sheet, out.localfile) <= MaxRegs
        /\ req' = request
        /\ resp' = out.resp
        /\ sheet' = out.sheet
        /\ localfile' = out.localfile
        /\ opened' = out.opened
        /\ faults' = out.faults
        /\ bodyRan' = ran
        /\ UNCHANGED <<inflight, lastWrite>>

\* a second passes between two requests
Tick ==
    /\ now < MaxClock
    /\ now' = now + 1
    /\ req' = NoRequest
    /\ resp' = Response
    /\ opened' = FALSE
    /\ faults' = {}
    /\ bodyRan' = FALSE
    /\ UNCHANGED <<session, sheet, localfile, loginOk, inflight, lastWrite>>

\* The validation of a handler does not touch the spreadsheet: the calls that
\* can fail are those made once it has passed.
SubmitOver(requests, calls) ==
    /\ \E i \in 1..Len(requests) :
         \E parse \in JsonEnvs(requests[i]) :
            \E checked \in {SubmitChecked(requests[i], now, parse)} :
               \E env \in (IF checked.answered THEN {parse} ELSE CallEnvs(calls)) :
                  Apply(requests[i], SubmitAfter(checked, sheet, localfile, env), FALSE)
    /\ UNCHANGED <<session, now, loginOk>>

\* the password a login request carries, in the form field or the JSON field
SubmittedPassword(request) ==
    IF "password" \in DOMAIN request.form.v THEN request.form.v["password"]
    ELSE IF request.body.t = "dict" THEN Get(request.body, "password", Null)
    ELSE Null

LoginOver(requests) ==
    /\ \E i \in 1..Len(requests) :
         LET out == teacher_login(requests[i], session)
         IN  /\ req' = requests[i]
             /\ resp' = out.resp
             /\ session' = out.session
             /\ loginOk' = (loginOk \/ (requests[i].method = "POST"
                              /\ PyEq(SubmittedPassword(requests[i]), TEACHER_PASSWORD)))
    /\ opened' = FALSE
    /\ faults' = {}
    /\ bodyRan' = FALSE
    /\ UNCHANGED <<sheet, localfile, now, inflight, lastWrite>>

TeacherLogout ==
    /\ req' = Request("/teacher/logout", "GET", FALSE, NoForm, Null)
    /\ resp' = teacher_logout(session).resp
    /\ session' = teacher_logout(session).session
    /\ loginOk' = FALSE
    /\ opened' = FALSE
    /\ faults' = {}
    /\ bodyRan' = FALSE
    /\ UNCHANGED <<sheet, localfile, now, inflight, lastWrite>>

DashboardOver(requests, calls) ==
    /\ \E i \in 1..Len(requests) :
         IF RequireTeacherAuth(session)
         THEN \E env \in CallEnvs(calls) :
                 Apply(requests[i], teacher_dashboard(sheet, localfile, env), TRUE)
         ELSE Apply(requests[i], Gated(sheet, localfile), FALSE)
    /\ UNCHANGED <<session, now, loginOk>>

UpdateOver(requests, calls) ==
    /\ \E i \in 1..Len(requests) :
         IF RequireTeacherAuth(session)
         THEN \E parse \in JsonEnvs(requests[i]) :
                 \E checked \in {UpdateChecked(requests[i], parse)} :
                    \E env \in (IF checked.answered THEN {parse} ELSE CallEnvs(calls)) :
                       Apply(requests[i], UpdateAfter(checked, sheet, localfile, env), TRUE)
         ELSE Apply(requests[i], Gated(sheet, localfile), FALSE)
    /\ UNCHANGED <<session, now, loginOk>>

GetRegistrationsOver(calls) ==
    /\ \E env \in CallEnvs(calls) :
         Apply(Request("/get-registrations", "GET", FALSE, NoForm, Null),
               get_registrations(sheet, localfile, env), FALSE)
    /\ UNCHANGED <<session, now, loginOk>>

\* every request, every fault
SubmitRegistration == SubmitOver(SubmitRequests, {"connect", "header", "append"})
TeacherLogin == LoginOver(LoginRequests)
TeacherDashboard == DashboardOver(DashboardRequests, {"connect", "header", "read"})
UpdatePayment == UpdateOver(UpdateRequests, {"connect", "header", "read", "update"})
GetRegistrations == GetRegistrationsOver({"connect", "header", "read"})

Next ==
    \/ Tick
    \/ SubmitRegistration
    \/ TeacherLogin
    \/ TeacherLogout
    \/ TeacherDashboard
    \/ UpdatePayment
    \/ GetRegistrations

Spec == Init /\ [][Next]_vars

-----------------------------------------------------------------------------
(* The gate: every login request, every dashboard request and fault, and one  *)
(* registration and a few payment updates to give the gated bodies a sheet.   *)

JsonLogin ==
    Request("/teacher/login", "POST", TRUE, NoForm, Dict(Field1("password", TEACHER_PASSWORD)))

FewUpdateRequests ==
    << Request("/teacher/update-payment", "POST", TRUE, NoForm, Dict(GoodUpdate)),
       Request("/teacher/update-payment", "POST", TRUE, NoForm,
               Dict([GoodUpdate EXCEPT !["player"] = Str(<<"player2">>)])),
       Request("/teacher/update-payment", "POST", FALSE, NoForm, Null) >>

AuthSubmit == SubmitOver(<<ValidSubmit>>, {"connect"})
AuthUpdate == UpdateOver(FewUpdateRequests, {"connect"})

NextAuth ==
    \/ AuthSubmit
    \/ TeacherLogin
    \/ TeacherLogout
    \/ TeacherDashboard
    \/ AuthUpdate

SpecAuth == Init /\ [][NextAuth]_vars

(* Registration: every submission and fault, with the administrator logged   *)
(* in through the JSON login and updating payments of the first team.        *)

RegLogin == LoginOver(<<JsonLogin>>)
RegUpdate == UpdateOver(FewUpdateRequests, {})
RegRead == GetRegistrationsOver({})

NextSubmit ==
    \/ SubmitRegistration
    \/ RegLogin
    \/ RegUpdate
    \/ RegRead

SpecSubmit == Init /\ [][NextSubmit]_vars

(* Payment update: every update request and fault, over sheets built from    *)
(* one kind of registration.                                                  *)

PaySubmit == SubmitOver(<<ValidSubmit>>, {})

NextUpdate ==
    \/ Tick
    \/ PaySubmit
    \/ RegLogin
    \/ UpdatePayment
    \/ RegRead

SpecUpdate == Init /\ [][NextUpdate]_vars

-----------------------------------------------------------------------------
(* Concurrent requests.  A WSGI server runs several requests at once, so the   *)
(* remote calls of one handler interleave with those of the others: each call *)
(* of get_google_sheet, submit_registration, teacher_dashboard and            *)
(* update_payment on the spreadsheet is a step of its own.  Validation and    *)
(* the gate are local to the request and happen when it begins.  The         *)
(* requests of one second are raced: they all get the same Team ID.          *)

RaceUpdateRequests ==
    << Request("/teacher/update-payment", "POST", TRUE, NoForm, Dict(GoodUpdate)),
       Request("/teacher/update-payment", "POST", TRUE, NoForm,
               Dict([GoodUpdate EXCEPT !["payment_status"] = Str(<<"No">>)])),
       Request("/teacher/update-payment", "POST", TRUE, NoForm,
               Dict([GoodUpdate EXCEPT !["team_id"] = Str(TeamId(MaxClock)),
                                       !["player"] = Str(<<"player2">>)])) >>

\* the requests in flight that run `op`
Working(op) == {c \in BagToSet(inflight) : c.op = op}

\* a worker is free and takes the request
Start(call) ==
    /\ BagCardinality(inflight) < MaxCalls
    /\ inflight' = inflight (+) SetToBag({call})
    /\ UNCHANGED <<session, sheet, localfile, now, req, resp, opened, faults, bodyRan,
                   loginOk, lastWrite>>

\* the request `call` goes on as `next`, or is over
Continue(call, next) == (inflight (-) SetToBag({call})) (+) SetToBag({next})
Finish(call) == inflight (-) SetToBag({call})

\* the request goes on to `pc` (or ends), the sheet becomes `sh`
Proceed(call, pc, sh) ==
    /\ inflight' = IF pc = "idle" THEN Finish(call)
                   ELSE Continue(call, [call EXCEPT !.pc = pc])
    /\ sheet' = sh
    /\ UNCHANGED <<session, now, req, resp, opened, faults, bodyRan, loginOk>>

\* what a handler does with the sheet get_google_sheet returned
AfterOpen(op) ==
    CASE op = "submit" -> "append"
      [] op = "update" -> "scan"
      [] OTHER -> "read"

\* lines 86-131, then get_google_sheet is called
BeginSubmit ==
    /\ Stored(sheet, localfile) + Cardinality(Working("submit")) < MaxRegs
    /\ \E checked \in {SubmitChecked(ValidSubmit, now, NoFault)} :
          /\ ~checked.answered
          /\ Start([Idle EXCEPT !.op = "submit", !.pc = "open",
                                !.row_data = checked.row])

\* lines 56-63 and 584-597, then get_google_sheet is called
BeginUpdate ==
    /\ RequireTeacherAuth(session)
    /\ \E i \in 1..Len(RaceUpdateRequests) :
          \E checked \in {UpdateChecked(RaceUpdateRequests[i], NoFault)} :
             /\ ~checked.answered
             /\ Start([Idle EXCEPT !.op = "update", !.pc = "open",
                                   !.team_id = checked.team_id,
                                   !.player = checked.player,
                                   !.payment_status = checked.payment_status])

\* lines 56-63, then get_google_sheet is called
BeginDashboard ==
    /\ RequireTeacherAuth(session)
    /\ Start([Idle EXCEPT !.op = "dashboard", !.pc = "open"])

At(pc) == {c \in BagToSet(inflight) : c.pc = pc}

\* line 36: sheet.get_all_records() in get_google_sheet
OpenSheet ==
    \E call \in At("open") :
       /\ Proceed(call, IF GetAllRecords(sheet) = <<>> THEN "header"
                        ELSE AfterOpen(call.op), sheet)
       /\ UNCHANGED <<localfile, lastWrite>>

\* line 49: sheet.append_row(headers)
AppendHeader ==
    \E call \in At("header") :
       /\ Proceed(call, AfterOpen(call.op), AppendRow(sheet, Headers))
       /\ UNCHANGED <<localfile, lastWrite>>

\* line 136: sheet.append_row(row_data)
AppendRegistration ==
    \E call \in At("append") :
       /\ Proceed(call, "idle", AppendRow(sheet, call.row_data))
       /\ UNCHANGED <<localfile, lastWrite>>

\* lines 604-613: the scan; row_index is kept for the write
ScanFound(call, row_index) ==
    /\ inflight' = IF row_index = 0 THEN Finish(call)
                   ELSE Continue(call, [call EXCEPT !.pc = "write",
                                                    !.row_index = row_index])
    /\ UNCHANGED <<session, sheet, localfile, now, req, resp, opened, faults, bodyRan,
                   loginOk, lastWrite>>

ScanRecords ==
    \E call \in At("scan") :
       ScanFound(call, RowIndex(GetAllRecords(sheet), call.team_id))

\* line 622: sheet.update_cell(row_index, col_index, payment_status)
WriteCell ==
    \E call \in At("write") :
       /\ Proceed(call, "idle", UpdateCell(sheet, call.row_index, ColIndex(call.player),
                                           call.payment_status.v))
       /\ lastWrite' = [row |-> call.row_index, col |-> ColIndex(call.player),
                        value |-> call.payment_status.v, team_id |-> call.team_id.v]
       /\ UNCHANGED localfile

\* line 170: sheet.get_all_records() for the page
ReadRecords ==
    \E call \in At("read") :
       /\ Proceed(call, "idle", sheet)
       /\ UNCHANGED <<localfile, lastWrite>>

\* The next remote call of a request raises.  In get_google_sheet that makes
\* it return None, and a submission then writes its row to the local file;
\* anywhere else the handler answers 500.
CallRaises ==
    \E call \in BagToSet(inflight) :
       /\ Proceed(call, "idle", sheet)
       /\ localfile' = IF call.op = "submit" /\ call.pc \in {"open", "header"}
                       THEN SaveToLocalFile(localfile, call.row_data, NoFault).file
                       ELSE localfile
       /\ UNCHANGED lastWrite

NextRace ==
    \/ RegLogin
    \/ BeginSubmit
    \/ BeginUpdate
    \/ BeginDashboard
    \/ OpenSheet
    \/ AppendHeader
    \/ AppendRegistration
    \/ ScanRecords
    \/ WriteCell
    \/ ReadRecords
    \/ CallRaises

SpecRace == Init /\ [][NextRace]_vars

-----------------------------------------------------------------------------
(* Properties.  The request of a step is req', its response resp'; the state  *)
(* it was sent in is the unprimed one.                                        *)

IsGatedRequest(r) == r.route \in {"/teacher", "/teacher/update-payment"}
IsLoginPost(r) == r.route = "/teacher/login" /\ r.method = "POST"
IsSubmit(r) == r.route = "/submit-registration"
IsUpdate(r) == r.route = "/teacher/update-payment"

\* Anonymous: the session carries no flag
Anonymous(sess) == "teacher_authenticated" \notin DOMAIN sess

RedirectedToLogin(r) == r.status = 302 /\ r.kind = "redirect" /\ r.location = "teacher_login"

\* the login page with the error "Invalid password"
LoginPageWithError(r) ==
    r.status = 200 /\ r.kind = "html" /\ r.page = "login" /\ r.error = "Invalid password"

\* an integer of [11,14] written as a number or as a string of digits
AgeInBounds(a) == a.t \in {"num", "str"} /\ \E n \in MinAge..MaxAge : a.v = IntToStr(n)

\* the request carries player1 and player2, both objects
HasPlayers(r) ==
    /\ IsSubmit(r) /\ r.is_json /\ r.body.t = "dict"
    /\ {"player1", "player2"} \subseteq DOMAIN r.body.v
    /\ \A p \in {"player1", "player2"} : r.body.v[p].t = "dict"

AgeOk(r, p) == "age" \in DOMAIN r.body.v[p].v /\ AgeInBounds(r.body.v[p].v["age"])

\* both ages in [11,14]
ValidSubmission(r) == HasPlayers(r) /\ AgeOk(r, "player1") /\ AgeOk(r, "player2")

\* an age outside [11,14] or not a number
BadAgeSubmission(r) == HasPlayers(r) /\ ~(AgeOk(r, "player1") /\ AgeOk(r, "player2"))

\* TEAM_<8 digits>_<6 digits>
WellFormedTeamId(id) ==
    /\ Len(id) = 16
    /\ id[1] = "TEAM_"
    /\ \A i \in 2..9 : IsDigit(id[i])
    /\ id[10] = "_"
    /\ \A i \in 11..16 : IsDigit(id[i])

\* the k-th field of a line of the local file
Separators(line) == {i \in 1..Len(line) : line[i] \in {"|", "\n"}}

SeparatorNo(line, k) ==
    IF k = 0 THEN 0
    ELSE CHOOSE i \in Separators(line) :
            Cardinality({j \in Separators(line) : j <= i}) = k

LineField(line, k) ==
    SubSeq(line, SeparatorNo(line, k - 1) + 1, SeparatorNo(line, k) - 1)

PaymentCols == {Player1PaymentCol, Player2PaymentCol}

\* the last row of the sheet, or the last line of the file, is the team's
LastRowIs(sh, team_id) == sh # <<>> /\ sh[Len(sh)][Len(Headers)] = team_id
LastLineIs(file, team_id) ==
    file # <<>> /\ LineField(file[Len(file)], Len(Headers)) = team_id

StrIn(x, values) == x.t = "str" /\ x.v \in values

\* team_id, player and payment_status all present and valid
ValidUpdate(r) ==
    /\ IsUpdate(r) /\ r.is_json /\ r.body.t = "dict"
    /\ {"team_id", "player", "payment_status"} \subseteq DOMAIN r.body.v
    /\ r.body.v["team_id"].t = "str" /\ r.body.v["team_id"].v # <<>>
    /\ StrIn(r.body.v["player"], {<<"player1">>, <<"player2">>})
    /\ StrIn(r.body.v["payment_status"], {<<"Yes">>, <<"No">>})

\* the spreadsheet rows of the records with this Team ID
RowsOf(sh, team_id) == {i \in 2..Len(sh) : sh[i][Len(Headers)] = team_id}

Least(rows) == CHOOSE i \in rows : \A j \in rows : i <= j

PaymentHeader(player) ==
    IF player = <<"player1">> THEN <<"Player 1 Payment Agreement">>
    ELSE <<"Player 2 Payment Agreement">>

PaymentCol(player) == IF player = <<"player1">> THEN 5 ELSE 9

\* no cell of the sheet `before` has another value in `after`
NoCellOverwritten(before, after) ==
    Len(after) >= Len(before) /\ \A i \in 1..Len(before) : after[i] = before[i]

\* C1: the body of a gated handler (/teacher, /teacher/update-payment) runs only
\* if a login POST carrying the secret happened earlier in the session and no
\* logout happened since; in every other case the request is redirected to the
\* login route and the spreadsheet is neither read nor written.
C1_GatedBodyOnlyAfterLogin ==
    [][IsGatedRequest(req') /\ ~loginOk'
          => /\ ~bodyRan'
             /\ RedirectedToLogin(resp')
             /\ ~opened'
             /\ sheet' = sheet
             /\ localfile' = localfile]_vars

\* a gated request refused after a registration was stored
C1_Witness ==
    /\ IsGatedRequest(req) /\ ~loginOk
    /\ RedirectedToLogin(resp)
    /\ Registrations(sheet) # {}

\* C2: a login POST whose submitted password equals the secret sets the session
\* flag and redirects to the dashboard, whether the password is sent as the
\* form field of the login page or as a JSON field.
C2_CorrectPasswordLogsIn ==
    IsLoginPost(req) /\ PyEq(SubmittedPassword(req), TEACHER_PASSWORD)
        => /\ ~Anonymous(session) /\ session["teacher_authenticated"]
           /\ resp.status = 302 /\ resp.location = "teacher_dashboard"

\* C3: a login POST from the login form with a wrong password is answered with
\* the login page and the error "Invalid password", not with a server error,
\* and a session that was Anonymous stays Anonymous.
C3_WrongPasswordRendersLogin ==
    IsLoginPost(req) /\ ~req.is_json /\ ~PyEq(SubmittedPassword(req), TEACHER_PASSWORD)
        => /\ LoginPageWithError(resp)
           /\ ~loginOk => Anonymous(session)

\* C4 as stated: an Anonymous request to a gated route receives 401 when it is
\* a JSON request and is redirected to the login route when it is not.
C4_AnonymousJsonGets401 ==
    IsGatedRequest(req) /\ Anonymous(session)
        => IF req.is_json THEN resp.status = 401 ELSE RedirectedToLogin(resp)

\* C4 amended: an Anonymous request to a gated route is redirected to the login
\* route, JSON or not, and the handler's body does not run.
C4_AnonymousIsRedirected ==
    IsGatedRequest(req) /\ Anonymous(session)
        => RedirectedToLogin(resp) /\ ~bodyRan /\ ~opened

\* an Anonymous JSON request to /teacher/update-payment, redirected
C4_Witness ==
    /\ IsUpdate(req) /\ req.is_json /\ Anonymous(session)
    /\ RedirectedToLogin(resp)

\* C5: every submission with player1 and player2 and both ages in [11,14] gets
\* success: true and a Team ID TEAM_<8 digits>_<6 digits>, whatever the state of
\* the spreadsheet.
C5_ValidSubmissionSucceeds ==
    ValidSubmission(req) => resp.success /\ WellFormedTeamId(resp.team_id)

\* C6: for a valid submission every remote failure falls back to the local
\* file (the row is appended there, the response is 200 with success: true and
\* saved_to_sheets: false), and after success: true the row is in the
\* spreadsheet or in the local file, never in neither.  Stated for a local
\* file that can be written.
C6_FailureFallsBackToFile ==
    ValidSubmission(req) /\ "file" \notin faults
        => /\ faults \cap RemoteCalls # {}
                => /\ resp.status = 200 /\ resp.success /\ ~resp.saved_to_sheets
                   /\ LastLineIs(localfile, resp.team_id)
           /\ resp.success
                => IF resp.saved_to_sheets THEN LastRowIs(sheet, resp.team_id)
                   ELSE LastLineIs(localfile, resp.team_id)

\* C7: a submission in which either age is outside [11,14] or is not a number
\* is answered 400 with storage untouched: no row appended to the spreadsheet
\* or the local file, the spreadsheet not opened.
C7_BadAgeRejected ==
    [][BadAgeSubmission(req')
          => /\ resp'.status = 400
             /\ ~opened'
             /\ sheet' = sheet
             /\ localfile' = localfile]_vars

\* C8: whatever paymentAgreement the client submits, the row a submission
\* writes (to the spreadsheet or to the local file) has "No" in both payment
\* fields, and a payment cell of a registration row becomes "Yes" only by a
\* successful /teacher/update-payment on that row.
C8_PaymentOnlyByTeacher ==
    [][/\ \A i \in (Len(sheet) + 1)..Len(sheet') :
             sheet'[i] # Headers => \A c \in PaymentCols : sheet'[i][c] = <<"No">>
       /\ \A i \in 1..Len(localfile) : localfile'[i] = localfile[i]
       /\ \A i \in (Len(localfile) + 1)..Len(localfile') :
             \A c \in PaymentCols : LineField(localfile'[i], c) = <<"No">>
       /\ \A i \in 1..Len(sheet) : \A c \in PaymentCols :
             sheet'[i][c] = <<"Yes">> /\ sheet[i][c] # <<"Yes">>
                => /\ IsUpdate(req') /\ bodyRan'
                   /\ resp'.status = 200 /\ resp'.success
                   /\ sheet[i][Len(Headers)] = resp'.team_id]_vars

\* a client that declared its payment agreement gets a row with "No" twice,
\* next to a row the teacher has marked "Yes"
C8_Witness ==
    /\ ValidSubmission(req) /\ resp.success /\ resp.saved_to_sheets
    /\ PyEq(req.body.v["player1"].v["paymentAgreement"], Bool(TRUE))
    /\ \A c \in PaymentCols : sheet[Len(sheet)][c] = <<"No">>
    /\ \E i \in 1..Len(sheet) : sheet[i][Player1PaymentCol] = <<"Yes">>

\* C9: an authenticated /teacher/update-payment request with one of the four
\* valid (player, payment_status) combinations is never answered with a
\* validation error, and one with a missing or invalid team_id, player or
\* payment_status, or with no JSON body, is answered 400 and leaves the
\* spreadsheet unchanged.
C9_InvalidUpdateIs400 ==
    [][IsUpdate(req') /\ bodyRan'
          => IF ValidUpdate(req') THEN resp'.status # 400
             ELSE resp'.status = 400 /\ sheet' = sheet]_vars

\* C10: a valid authenticated update whose remote calls succeed writes
\* payment_status into one cell when a record has the Team ID, the cell of the
\* first such record (its index + 2) in column 5 (player1) or 9 (player2), the
\* payment column of that player, and answers 404 "Team ID not found" without
\* overwriting a cell when none has; whatever fails, no other cell is written.
C10_FirstMatchingCell ==
    [][IsUpdate(req') /\ bodyRan' /\ ValidUpdate(req')
          => LET team_id == req'.body.v["team_id"].v
                 player == req'.body.v["player"].v
                 payment_status == req'.body.v["payment_status"].v
                 rows == RowsOf(sheet, team_id)
             IN  /\ faults' = {} /\ rows # {}
                      => /\ resp'.status = 200 /\ resp'.success
                         /\ sheet' = [sheet EXCEPT ![Least(rows)][PaymentCol(player)]
                                                        = payment_status]
                         /\ sheet[1][PaymentCol(player)] = PaymentHeader(player)
                 /\ faults' = {} /\ rows = {}
                      => /\ resp'.status = 404 /\ resp'.error = "Team ID not found"
                         /\ NoCellOverwritten(sheet, sheet')
                 /\ \A i \in 1..Len(sheet) : \A c \in 1..Len(sheet[i]) :
                       sheet'[i][c] # sheet[i][c]
                          => /\ rows # {} /\ i = Least(rows)
                             /\ c = PaymentCol(player)
                             /\ sheet'[i][c] = payment_status]_vars

\* two records share a Team ID and the update has marked the first of them only
C10_Witness ==
    /\ ValidUpdate(req) /\ bodyRan /\ resp.success
    /\ \E i \in 2..Len(sheet) : \E j \in (i + 1)..Len(sheet) :
          /\ RowsOf(sheet, resp.team_id) = {i, j}
          /\ sheet[i][Player2PaymentCol] = <<"Yes">>
          /\ sheet[j][Player2PaymentCol] = <<"No">>

\* the cells of row i that differ between two sheets
ChangedCells(before, after, i) ==
    {c \in 1..Len(before[i]) : after[i][c] # before[i][c]}

ChangedRows(before, after) ==
    {i \in 1..Len(before) : ChangedCells(before, after, i) # {}}

\* the registration rows a step has added to the sheet, the lines to the file
NewRows(before, after) == {i \in (Len(before) + 1)..Len(after) : after[i] # Headers}
NewLines(before, after) == (Len(before) + 1)..Len(after)

\* C11: whenever the dashboard is rendered, full_payment_count +
\* partial_payment_count + no_payment_count = total_count, for every record
\* set reachable through the system's own operations from an empty sheet.
C11_CountsAddUp ==
    req.route = "/teacher" /\ resp.page = "dashboard"
        => resp.full_payment_count + resp.partial_payment_count + resp.no_payment_count
              = resp.total_count

\* C12: a registration row once written is never removed, moved or duplicated
\* and keeps its eight non-payment fields; the only operation that changes an
\* existing row is a successful payment update, and it changes payment cells
\* of one row only.  The lines of the local file are never changed.
C12_RowsAreKept ==
    [][/\ Len(sheet') >= Len(sheet)
       /\ Len(localfile') >= Len(localfile)
       /\ \A i \in 1..Len(localfile) : localfile'[i] = localfile[i]
       /\ \A i \in 1..Len(sheet) :
             /\ Len(sheet'[i]) = Len(sheet[i])
             /\ ChangedCells(sheet, sheet', i) \subseteq PaymentCols
       /\ Cardinality(ChangedRows(sheet, sheet')) <= 1
       /\ ChangedRows(sheet, sheet') # {}
             => IsUpdate(req') /\ bodyRan' /\ resp'.status = 200 /\ resp'.success
       /\ Cardinality(NewRows(sheet, sheet'))
             + Cardinality(NewLines(localfile, localfile')) <= 1
       /\ NewRows(sheet, sheet') # {} \/ NewLines(localfile, localfile') # {}
             => IsSubmit(req') /\ resp'.success]_vars

\* a payment update has marked one of two stored registrations, whose other
\* fields are those of its submission
C12_Witness ==
    /\ ValidUpdate(req) /\ resp.success
    /\ Cardinality(Registrations(sheet)) = 2
    /\ \E i \in Registrations(sheet) :
          /\ sheet[i][Player1PaymentCol] = <<"Yes">>
          /\ sheet[i][Len(Headers)] = resp.team_id
          /\ sheet[i][2] = <<"A">> /\ sheet[i][3] = <<"1", "1">>

\* C13: after any sequence of operations that open the spreadsheet, starting
\* from an empty sheet, the sheet holds the header row exactly once, as its
\* first row, so that get_all_records returns exactly the registration rows.
C13_OneHeaderRow ==
    sheet # <<>>
        => /\ sheet[1] = Headers
           /\ \A i \in 2..Len(sheet) : sheet[i] # Headers
           /\ Len(GetAllRecords(sheet)) = Cardinality(Registrations(sheet))

\* C14: under every interleaving of the system's own requests, with the scan
\* and the cell write of an update as separate steps, the row an update is
\* about to write still holds the Team ID its scan matched, the write lands on
\* a row with that Team ID, and a cell written by racing updates holds the
\* value of the write applied last.
C14_WriteHitsScannedRow ==
    /\ \A call \in BagToSet(inflight) :
          call.pc = "write"
             => /\ call.row_index \in 2..Len(sheet)
                /\ sheet[call.row_index][Len(Headers)] = call.team_id.v
    /\ lastWrite.row # 0
          => /\ sheet[lastWrite.row][Len(Headers)] = lastWrite.team_id
             /\ sheet[lastWrite.row][lastWrite.col] = lastWrite.value

\* two updates race on one cell with different values, one write is applied
\* and the other is still to come, while a registration was appended since
\* the scans
C14_Witness ==
    /\ lastWrite.row # 0
    /\ \E call \in BagToSet(inflight) :
          /\ call.pc = "write"
          /\ call.row_index = lastWrite.row
          /\ ColIndex(call.player) = lastWrite.col
          /\ call.payment_status.v # lastWrite.value
    /\ Cardinality(Registrations(sheet)) >= 2

====
